---- MODULE Spec2Model ----
(***************************************************************************)
(* MdToImage plugin (src/main.py): a NormalMessageResponded handler that   *)
(* rewrites an assistant reply containing Markdown images ![alt](url) into *)
(* an ordered chain of Plain / Image message parts.                        *)
(*                                                                         *)
(* Strings are sequences of one-character strings, so that lower(),        *)
(* strip(), rstrip("/"), startswith() and the regular expression are       *)
(* computed character by character, as the code computes them.             *)
(***************************************************************************)
EXTENDS Integers, Sequences, FiniteSets, TLC

VARIABLES
    base_url,            \* self.base_url, set once by __init__
    event,               \* event[i]: ctx.event of invocation i (response_text, reply)
    pc,                  \* pc[i]: position of invocation i inside normal_message_responded
    resp_text,           \* local resp_text of invocation i
    parsed_content,      \* local parsed_content of invocation i
    message_components,  \* local message_components of invocation i
    idx,                 \* position of the for loop over parsed_content (1-based)
    caught,              \* caught[i]: the except clause of the current run was entered
    hist,                \* history: the reply slot at dispatch and at the start of the run
    call                 \* a direct call of a helper method: its name, argument and result

vars == <<base_url, event, pc, resp_text, parsed_content, message_components,
          idx, caught, hist, call>>

---------------------------------------------------------------------------
(* Optional values: Python's None against a present value. *)

None == [tag |-> "None"]

Some(v) == [tag |-> "Some", val |-> v]

IsNone(o) == o.tag = "None"

---------------------------------------------------------------------------
(* Characters and the str methods the code uses. *)

IsSpace(c) == c \in {" ", "\n", "\t"}

LowerChar(c) ==
    CASE c = "H" -> "h"
      [] c = "T" -> "t"
      [] c = "P" -> "p"
      [] c = "S" -> "s"
      [] c = "D" -> "d"
      [] c = "A" -> "a"
      [] c = "X" -> "x"
      [] OTHER -> c

Lower(s) == [k \in 1..Len(s) |-> LowerChar(s[k])]

StartsWith(s, p) == Len(s) >= Len(p) /\ SubSeq(s, 1, Len(p)) = p

RECURSIVE LStrip(_)
LStrip(s) == IF s # <<>> /\ IsSpace(Head(s)) THEN LStrip(Tail(s)) ELSE s

RECURSIVE RStrip(_)
RStrip(s) ==
    IF s # <<>> /\ IsSpace(s[Len(s)]) THEN RStrip(SubSeq(s, 1, Len(s) - 1)) ELSE s

Strip(s) == RStrip(LStrip(s))

RECURSIVE RStripSlash(_)
RStripSlash(s) ==
    IF s # <<>> /\ s[Len(s)] = "/" THEN RStripSlash(SubSeq(s, 1, Len(s) - 1)) ELSE s

HTTP == <<"h", "t", "t", "p", ":", "/", "/">>

HTTPS == <<"h", "t", "t", "p", "s", ":", "/", "/">>

DATA == <<"d", "a", "t", "a", ":">>

---------------------------------------------------------------------------
(* The image pattern of lines 101 and 144: "!", "[", any run of characters   *)
(* other than "]" (group 1), "]", "(", a non-empty run of characters other *)
(* than ")" (group 2), ")"; and the re functions applied to it.            *)

\* Least k in from..Len(s) with s[k] = c, or 0 when there is none.
RECURSIVE IndexFrom(_, _, _)
IndexFrom(s, c, from) ==
    IF from > Len(s) THEN 0
    ELSE IF s[from] = c THEN from
    ELSE IndexFrom(s, c, from + 1)

NoMatch == [ok |-> FALSE]

\* The match of the pattern that starts at position i, if any.  Group 1 cannot
\* step over a "]" and is followed by a literal "]", so it ends at the first
\* "]"; likewise group 2 ends at the first ")" and is not empty.
MatchAt(s, i) ==
    IF ~(i + 1 <= Len(s) /\ s[i] = "!" /\ s[i + 1] = "[") THEN NoMatch
    ELSE LET j == IndexFrom(s, "]", i + 2) IN
         IF j = 0 \/ j + 1 > Len(s) \/ s[j + 1] # "(" THEN NoMatch
         ELSE LET k == IndexFrom(s, ")", j + 2) IN
              IF k = 0 \/ k = j + 2 THEN NoMatch
              ELSE [ok |-> TRUE, start |-> i, end |-> k,
                    group1 |-> SubSeq(s, i + 2, j - 1),
                    group2 |-> SubSeq(s, j + 2, k - 1)]

\* The leftmost match starting at or after position from.
RECURSIVE SearchFrom(_, _)
SearchFrom(s, from) ==
    IF from > Len(s) THEN NoMatch
    ELSE LET m == MatchAt(s, from) IN
         IF m.ok THEN m ELSE SearchFrom(s, from + 1)

\* re.search(pattern, s), as a truth value.
Search(s) == SearchFrom(s, 1).ok

\* re.finditer(pattern, s): the non-overlapping matches, left to right.
RECURSIVE FindIterFrom(_, _)
FindIterFrom(s, from) ==
    LET m == SearchFrom(s, from) IN
    IF m.ok THEN <<m>> \o FindIterFrom(s, m.end + 1) ELSE <<>>

FindIter(s) == FindIterFrom(s, 1)

---------------------------------------------------------------------------
(* Configuration. *)

\* _load_base_url_from_config on a config.json that is absent ("missing"),
\* unreadable or of the wrong shape ("malformed": the except clause), or a JSON
\* object whose base_url field is None or a string.
LoadBaseUrl(cfg) ==
    IF cfg.tag = "missing" THEN <<>>
    ELSE IF cfg.tag = "malformed" THEN <<>>
    ELSE LET stripped == Strip(IF IsNone(cfg.base_url) THEN <<>> ELSE cfg.base_url.val) IN
         IF stripped # <<>> THEN RStripSlash(stripped) ELSE <<>>

---------------------------------------------------------------------------
(* normalize_image_url and parse_markdown_content. *)

IsAbsolute(u) ==
    \/ StartsWith(Lower(u), HTTP)
    \/ StartsWith(Lower(u), HTTPS)
    \/ StartsWith(Lower(u), DATA)

\* Faulty variant: joins base_url and a root-relative url with an extra "/".
normalize_image_url_slash(base, url) ==
    IF url = <<>> THEN url
    ELSE IF IsAbsolute(url) THEN url
    ELSE IF StartsWith(url, <<"/">>) THEN RStripSlash(base) \o <<"/">> \o url
    ELSE url

normalize_image_url(base, url) ==
    IF url = <<>> THEN url
    ELSE IF IsAbsolute(url) THEN url
    ELSE IF StartsWith(url, <<"/">>) THEN RStripSlash(base) \o url
    ELSE url

TextSegment(content) == [type |-> "text", content |-> content]

ImageSegment(alt, url) == [type |-> "image", alt |-> alt, url |-> url]

\* Faulty variant: the trailing text is tested with last_end < len(text) - 1.
RECURSIVE ParseLoopTailOffByOne(_, _, _, _, _)
ParseLoopTailOffByOne(base, text, matches, n, last_end) ==
    IF n > Len(matches)
    THEN IF last_end < Len(text) - 1 /\ Strip(SubSeq(text, last_end + 1, Len(text))) # <<>>
         THEN <<TextSegment(SubSeq(text, last_end + 1, Len(text)))>>
         ELSE <<>>
    ELSE LET m == matches[n]
             text_before == SubSeq(text, last_end + 1, m.start - 1)
         IN  (IF m.start - 1 > last_end /\ Strip(text_before) # <<>>
              THEN <<TextSegment(text_before)>>
              ELSE <<>>)
             \o <<ImageSegment(m.group1, normalize_image_url(base, m.group2))>>
             \o ParseLoopTailOffByOne(base, text, matches, n + 1, m.end)

\* Faulty variant: the text before a match is appended without the strip() test.
RECURSIVE ParseLoopNoStrip(_, _, _, _, _)
ParseLoopNoStrip(base, text, matches, n, last_end) ==
    IF n > Len(matches)
    THEN IF last_end < Len(text) /\ Strip(SubSeq(text, last_end + 1, Len(text))) # <<>>
         THEN <<TextSegment(SubSeq(text, last_end + 1, Len(text)))>>
         ELSE <<>>
    ELSE LET m == matches[n]
             text_before == SubSeq(text, last_end + 1, m.start - 1)
         IN  (IF m.start - 1 > last_end
              THEN <<TextSegment(text_before)>>
              ELSE <<>>)
             \o <<ImageSegment(m.group1, normalize_image_url(base, m.group2))>>
             \o ParseLoopNoStrip(base, text, matches, n + 1, m.end)

\* The body of the for loop over the matches, from match number n on, followed
\* by the code after the loop.
RECURSIVE ParseLoop(_, _, _, _, _)
ParseLoop(base, text, matches, n, last_end) ==
    IF n > Len(matches)
    THEN IF last_end < Len(text) /\ Strip(SubSeq(text, last_end + 1, Len(text))) # <<>>
         THEN <<TextSegment(SubSeq(text, last_end + 1, Len(text)))>>
         ELSE <<>>
    ELSE LET m == matches[n]
             text_before == SubSeq(text, last_end + 1, m.start - 1)
         IN  (IF m.start - 1 > last_end /\ Strip(text_before) # <<>>
              THEN <<TextSegment(text_before)>>
              ELSE <<>>)
             \o <<ImageSegment(m.group1, normalize_image_url(base, m.group2))>>
             \o ParseLoop(base, text, matches, n + 1, m.end)

parse_markdown_content(base, text) == ParseLoop(base, text, FindIter(text), 1, 0)

---------------------------------------------------------------------------
(* Message parts of the host platform (pkg.platform.types). *)

Plain(text) == [type |-> "Plain", text |-> text]

Image(url) == [type |-> "Image", url |-> url]

---------------------------------------------------------------------------
(* Bounds and input sets. *)

\* Invocations of the handler that may be in progress at once.
NumEvents == 2

\* Pieces concatenated into a response text handed to the handler.
MaxParts == 2

\* Pieces concatenated into a text handed directly to parse_markdown_content.
MaxTokens == 4

\* Pieces concatenated into a url handed directly to normalize_image_url.
MaxUrlParts == 3

Events == 1..NumEvents

Img(alt, url) == <<"!", "[">> \o alt \o <<"]", "(">> \o url \o <<")">>

RECURSIVE Concats(_, _)
Concats(pieces, n) ==
    IF n = 0 THEN {<<>>}
    ELSE LET shorter == Concats(pieces, n - 1) IN
         shorter \cup {s \o p : s \in shorter, p \in pieces}

ResponsePieces ==
    { <<"a">>,
      <<" ">>,
      <<")">>,
      <<"!", "[", "]", "(">>,
      Img(<<"a">>, HTTP \o <<"x">>),
      Img(<<>>, DATA \o <<"x">>),
      Img(<<>>, <<"/", "p">>),
      Img(<<"a">>, <<"p", "/", "q">>),
      Img(<<>>, <<" ", "H", "T", "T", "P", "S", ":", "/", "/", "x">>),
      Img(<<>>, <<" ", "/", "p">>) }

\* ctx.event.response_text: absent, or a string (possibly empty).
ResponseTexts == {None} \cup {Some(t) : t \in Concats(ResponsePieces, MaxParts)}

ConcurrentTexts ==
    { Some(<<"a">>),
      Some(Img(<<>>, <<"/", "p">>)),
      Some(Img(<<"a">>, <<"p", "/", "q">>)),
      Some(<<"a">> \o Img(<<"a">>, HTTP \o <<"x">>)) }

\* The reply slot when the handler is called: unset, or set by an earlier handler.
ReplySlots == {None, Some(<<Plain(<<"o">>)>>)}

ParseTokens ==
    { <<"a">>, <<" ">>, <<"\n">>, <<"!", "[">>, <<"]", "(">>, <<")">>, <<"/">>,
      Img(<<"a">>, HTTP \o <<"x">>) }

ParseTexts == Concats(ParseTokens, MaxTokens)

UrlTokens ==
    { <<"/">>, <<"p">>, <<" ">>, <<":">>, HTTP, <<"H", "T", "T", "P", "S", ":", "/", "/">>,
      <<"D", "a", "t", "a", ":">>, <<"h", "t", "t", "p">> }

Urls == Concats(UrlTokens, MaxUrlParts)

BaseB == HTTP \o <<"b">>

\* config.json as __init__ may find it.
Configs ==
    { [tag |-> "missing"],
      [tag |-> "malformed"],
      [tag |-> "json", base_url |-> None],
      [tag |-> "json", base_url |-> Some(<<>>)],
      [tag |-> "json", base_url |-> Some(<<" ", "/", "\n">>)],
      [tag |-> "json", base_url |-> Some(BaseB)],
      [tag |-> "json", base_url |-> Some(<<" ">> \o BaseB \o <<"/", "/", " ">>)],
      [tag |-> "json", base_url |-> Some(BaseB \o <<"/", "c", "/">>)] }

---------------------------------------------------------------------------
(* State after construction: __init__ has loaded base_url, no event yet. *)

NoEvent == [response_text |-> None, reply |-> None]

NoHist == [dispatched |-> None, run |-> None, rerun |-> FALSE, wrote |-> FALSE]

NoCall == [fn |-> "none"]

Init ==
    /\ \E cfg \in Configs : base_url = LoadBaseUrl(cfg)
    /\ event = [i \in Events |-> NoEvent]
    /\ pc = [i \in Events |-> "idle"]
    /\ resp_text = [i \in Events |-> <<>>]
    /\ parsed_content = [i \in Events |-> <<>>]
    /\ message_components = [i \in Events |-> <<>>]
    /\ idx = [i \in Events |-> 0]
    /\ caught = [i \in Events |-> FALSE]
    /\ hist = [i \in Events |-> NoHist]
    /\ call = NoCall

---------------------------------------------------------------------------
(* normal_message_responded, one step at a time. *)

\* The handler's locals go out of scope when it returns.
Return(i) ==
    /\ pc' = [pc EXCEPT ![i] = "done"]
    /\ resp_text' = [resp_text EXCEPT ![i] = <<>>]
    /\ parsed_content' = [parsed_content EXCEPT ![i] = <<>>]
    /\ message_components' = [message_components EXCEPT ![i] = <<>>]
    /\ idx' = [idx EXCEPT ![i] = 0]

\* The host calls the handler with a new event.
Dispatch(i, texts, slots) ==
    /\ pc[i] = "idle"
    /\ \E t \in texts, r \in slots :
          /\ event' = [event EXCEPT ![i] = [response_text |-> t, reply |-> r]]
          /\ hist' = [hist EXCEPT ![i] =
                         [dispatched |-> r, run |-> r, rerun |-> FALSE, wrote |-> FALSE]]
    /\ pc' = [pc EXCEPT ![i] = "read"]
    /\ caught' = [caught EXCEPT ![i] = FALSE]
    /\ UNCHANGED <<base_url, resp_text, parsed_content, message_components, idx, call>>

\* The host calls the handler again with the same event.
Rerun(i) ==
    /\ pc[i] = "done"
    /\ hist' = [hist EXCEPT ![i] =
                   [dispatched |-> hist[i].dispatched, run |-> event[i].reply,
                    rerun |-> TRUE, wrote |-> FALSE]]
    /\ pc' = [pc EXCEPT ![i] = "read"]
    /\ caught' = [caught EXCEPT ![i] = FALSE]
    /\ UNCHANGED <<base_url, event, resp_text, parsed_content, message_components, idx, call>>

\* The host is done with the event (it sends event.reply, or the original response).
Release(i) ==
    /\ pc[i] = "done"
    /\ event' = [event EXCEPT ![i] = NoEvent]
    /\ hist' = [hist EXCEPT ![i] = NoHist]
    /\ pc' = [pc EXCEPT ![i] = "idle"]
    /\ caught' = [caught EXCEPT ![i] = FALSE]
    /\ UNCHANGED <<base_url, resp_text, parsed_content, message_components, idx, call>>

\* resp_text = ctx.event.response_text or ""
ReadStep(i) ==
    /\ pc[i] = "read"
    /\ resp_text' = [resp_text EXCEPT ![i] =
                        IF IsNone(event[i].response_text) THEN <<>>
                        ELSE event[i].response_text.val]
    /\ pc' = [pc EXCEPT ![i] = "search"]
    /\ UNCHANGED <<base_url, event, parsed_content, message_components, idx, caught,
                   hist, call>>

\* Faulty variant: the re.search test is missing.
SearchStepAlways(i) ==
    /\ pc[i] = "search"
    /\ pc' = [pc EXCEPT ![i] = "gate"]
    /\ UNCHANGED <<base_url, event, resp_text, parsed_content, message_components, idx,
                   caught, hist, call>>

\* if re.search(img_pattern, resp_text): ... ; with no match the try block ends.
SearchStep(i) ==
    /\ pc[i] = "search"
    /\ IF Search(resp_text[i])
       THEN /\ pc' = [pc EXCEPT ![i] = "gate"]
            /\ UNCHANGED <<resp_text, parsed_content, message_components, idx>>
       ELSE Return(i)
    /\ UNCHANGED <<base_url, event, caught, hist, call>>

\* Faulty variant: has_relative looks at the first url only.
GateStepFirstOnly(i) ==
    /\ pc[i] = "gate"
    /\ LET matches == FindIter(resp_text[i])
           urls == [k \in 1..Len(matches) |-> Strip(matches[k].group2)]
           has_relative == urls # <<>> /\ ~IsAbsolute(urls[1])
       IN  IF has_relative /\ base_url = <<>>
           THEN Return(i)
           ELSE /\ pc' = [pc EXCEPT ![i] = "parse"]
                /\ UNCHANGED <<resp_text, parsed_content, message_components, idx>>
    /\ UNCHANGED <<base_url, event, caught, hist, call>>

\* urls, has_relative and the early return when base_url is not configured.
GateStep(i) ==
    /\ pc[i] = "gate"
    /\ LET matches == FindIter(resp_text[i])
           urls == [k \in 1..Len(matches) |-> Strip(matches[k].group2)]
           has_relative == \E k \in 1..Len(urls) : ~IsAbsolute(urls[k])
       IN  IF has_relative /\ base_url = <<>>
           THEN Return(i)
           ELSE /\ pc' = [pc EXCEPT ![i] = "parse"]
                /\ UNCHANGED <<resp_text, parsed_content, message_components, idx>>
    /\ UNCHANGED <<base_url, event, caught, hist, call>>

\* Faulty variant: the parse result is kept on the plugin instance, which every
\* invocation in progress shares.
ParseStepShared(i) ==
    /\ pc[i] = "parse"
    /\ parsed_content' = [j \in Events |-> parse_markdown_content(base_url, resp_text[i])]
    /\ message_components' = [message_components EXCEPT ![i] = <<>>]
    /\ idx' = [idx EXCEPT ![i] = 1]
    /\ pc' = [pc EXCEPT ![i] = "loop"]
    /\ UNCHANGED <<base_url, event, resp_text, caught, hist, call>>

\* parsed_content = self.parse_markdown_content(resp_text); message_components = []
ParseStep(i) ==
    /\ pc[i] = "parse"
    /\ parsed_content' = [parsed_content EXCEPT ![i] =
                             parse_markdown_content(base_url, resp_text[i])]
    /\ message_components' = [message_components EXCEPT ![i] = <<>>]
    /\ idx' = [idx EXCEPT ![i] = 1]
    /\ pc' = [pc EXCEPT ![i] = "loop"]
    /\ UNCHANGED <<base_url, event, resp_text, caught, hist, call>>

\* Faulty variant: text items are not converted.
LoopStepSkipText(i) ==
    /\ pc[i] = "loop"
    /\ IF idx[i] <= Len(parsed_content[i])
       THEN LET item == parsed_content[i][idx[i]] IN
            /\ message_components' = [message_components EXCEPT ![i] =
                  IF item.type = "image" THEN Append(@, Image(item.url)) ELSE @]
            /\ idx' = [idx EXCEPT ![i] = @ + 1]
            /\ UNCHANGED pc
       ELSE /\ pc' = [pc EXCEPT ![i] = "set"]
            /\ UNCHANGED <<message_components, idx>>
    /\ UNCHANGED <<base_url, event, resp_text, parsed_content, caught, hist, call>>

\* Faulty variant: image items are not converted.
LoopStepSkipImage(i) ==
    /\ pc[i] = "loop"
    /\ IF idx[i] <= Len(parsed_content[i])
       THEN LET item == parsed_content[i][idx[i]] IN
            /\ message_components' = [message_components EXCEPT ![i] =
                  IF item.type = "text" THEN Append(@, Plain(item.content)) ELSE @]
            /\ idx' = [idx EXCEPT ![i] = @ + 1]
            /\ UNCHANGED pc
       ELSE /\ pc' = [pc EXCEPT ![i] = "set"]
            /\ UNCHANGED <<message_components, idx>>
    /\ UNCHANGED <<base_url, event, resp_text, parsed_content, caught, hist, call>>

\* Faulty variant: each part is stored into ctx.event.reply as soon as it is built.
LoopStepIncremental(i) ==
    /\ pc[i] = "loop"
    /\ IF idx[i] <= Len(parsed_content[i])
       THEN LET item == parsed_content[i][idx[i]]
                part == IF item.type = "text" THEN Plain(item.content) ELSE Image(item.url)
            IN
            /\ message_components' = [message_components EXCEPT ![i] = Append(@, part)]
            /\ event' = [event EXCEPT ![i].reply = Some(Append(message_components[i], part))]
            /\ idx' = [idx EXCEPT ![i] = @ + 1]
            /\ UNCHANGED pc
       ELSE /\ pc' = [pc EXCEPT ![i] = "set"]
            /\ UNCHANGED <<message_components, idx, event>>
    /\ UNCHANGED <<base_url, resp_text, parsed_content, caught, hist, call>>

\* One iteration of: for item in parsed_content
LoopStep(i) ==
    /\ pc[i] = "loop"
    /\ IF idx[i] <= Len(parsed_content[i])
       THEN LET item == parsed_content[i][idx[i]] IN
            /\ message_components' = [message_components EXCEPT ![i] =
                  IF item.type = "text" THEN Append(@, Plain(item.content))
                  ELSE IF item.type = "image" THEN Append(@, Image(item.url))
                  ELSE @]
            /\ idx' = [idx EXCEPT ![i] = @ + 1]
            /\ UNCHANGED pc
       ELSE /\ pc' = [pc EXCEPT ![i] = "set"]
            /\ UNCHANGED <<message_components, idx>>
    /\ UNCHANGED <<base_url, event, resp_text, parsed_content, caught, hist, call>>

\* if message_components: ctx.event.reply = message_components; return
SetReplyStep(i) ==
    /\ pc[i] = "set"
    /\ IF message_components[i] # <<>>
       THEN /\ event' = [event EXCEPT ![i].reply = Some(message_components[i])]
            /\ hist' = [hist EXCEPT ![i].wrote = TRUE]
       ELSE UNCHANGED <<event, hist>>
    /\ Return(i)
    /\ UNCHANGED <<base_url, caught, call>>

\* An exception raised by a statement of the try block.
Raise(i) ==
    /\ pc[i] \in {"read", "search", "gate", "parse", "loop", "set"}
    /\ pc' = [pc EXCEPT ![i] = "except"]
    /\ UNCHANGED <<base_url, event, resp_text, parsed_content, message_components, idx,
                   caught, hist, call>>

\* except Exception as e: log it; the handler returns normally.
ExceptStep(i) ==
    /\ pc[i] = "except"
    /\ caught' = [caught EXCEPT ![i] = TRUE]
    /\ Return(i)
    /\ UNCHANGED <<base_url, event, hist, call>>

Handler(i) ==
    \/ ReadStep(i)
    \/ SearchStep(i)
    \/ GateStep(i)
    \/ ParseStep(i)
    \/ LoopStep(i)
    \/ SetReplyStep(i)
    \/ Raise(i)
    \/ ExceptStep(i)

---------------------------------------------------------------------------
(* Specifications. *)

\* Events handled one at a time, each possibly handled again.
Next ==
    \/ Dispatch(1, ResponseTexts, ReplySlots)
    \/ Rerun(1)
    \/ Handler(1)
    \/ Release(1)

Spec == Init /\ [][Next]_vars

\* Up to NumEvents invocations in progress, their steps interleaved.
NextConcurrent ==
    \E i \in Events :
        \/ Dispatch(i, ConcurrentTexts, {None})
        \/ Handler(i)
        \/ Release(i)

SpecConcurrent == Init /\ [][NextConcurrent]_vars

\* The helper methods called directly on the constructed plugin.
CallNormalize ==
    /\ call = NoCall
    /\ \E url \in Urls :
          call' = [fn |-> "normalize_image_url", arg |-> url,
                   ret |-> normalize_image_url(base_url, url)]
    /\ UNCHANGED <<base_url, event, pc, resp_text, parsed_content, message_components,
                   idx, caught, hist>>

CallParse ==
    /\ call = NoCall
    /\ \E text \in ParseTexts :
          call' = [fn |-> "parse_markdown_content", arg |-> text,
                   ret |-> parse_markdown_content(base_url, text)]
    /\ UNCHANGED <<base_url, event, pc, resp_text, parsed_content, message_components,
                   idx, caught, hist>>

\* The caller has taken the result.
CallReturn ==
    /\ call # NoCall
    /\ call' = NoCall
    /\ UNCHANGED <<base_url, event, pc, resp_text, parsed_content, message_components,
                   idx, caught, hist>>

NextHelpers == CallNormalize \/ CallParse \/ CallReturn

SpecHelpers == Init /\ [][NextHelpers]_vars

---------------------------------------------------------------------------
(* Vocabulary of the properties, stated independently of the handler's steps. *)

\* The response text of invocation i as a string (absent counts as empty).
TextOf(i) ==
    IF IsNone(event[i].response_text) THEN <<>> ELSE event[i].response_text.val

\* s contains a match of the image pattern.
HasImageMatch(s) == \E k \in 1..Len(s) : MatchAt(s, k).ok

\* The url captures of the matches of s, in order of appearance.
Captures(s) == [k \in 1..Len(FindIter(s)) |-> FindIter(s)[k].group2]

HasPrefixIgnoringCase(u, p) ==
    Len(u) >= Len(p) /\ \A k \in 1..Len(p) : LowerChar(u[k]) = p[k]

\* u begins, case-insensitively, with http://, https:// or data:
AbsoluteOrData(u) == \E p \in {HTTP, HTTPS, DATA} : HasPrefixIgnoringCase(u, p)

\* u begins with "/".
RootRelative(u) == u # <<>> /\ u[1] = "/"

NonSpace(s) == SelectSeq(s, LAMBDA c : ~IsSpace(c))

Blank(s) == NonSpace(s) = <<>>

\* Each text segment as a Plain part, each image segment as an Image part.
ToParts(segments) ==
    [k \in 1..Len(segments) |->
        IF segments[k].type = "text" THEN Plain(segments[k].content)
        ELSE Image(segments[k].url)]

IsImageSegment(seg) == seg.type = "image"

IsTextSegment(seg) == seg.type = "text"

\* The spans of text before, between and after its matches: Len(matches) + 1 of them.
Gaps(text, matches) ==
    [k \in 1..(Len(matches) + 1) |->
        SubSeq(text,
               IF k = 1 THEN 1 ELSE matches[k - 1].end + 1,
               IF k = Len(matches) + 1 THEN Len(text) ELSE matches[k].start - 1)]

RECURSIVE Flatten(_)
Flatten(seqs) == IF seqs = <<>> THEN <<>> ELSE Head(seqs) \o Flatten(Tail(seqs))

\* text with every whitespace-only span before, between or after matches removed.
WithoutBlankGaps(text, matches) ==
    Flatten([k \in 1..(2 * Len(matches) + 1) |->
        IF k % 2 = 1
        THEN LET gap == Gaps(text, matches)[(k + 1) \div 2] IN IF Blank(gap) THEN <<>> ELSE gap
        ELSE SubSeq(text, matches[k \div 2].start, matches[k \div 2].end)])

\* The segments walked in order: the n-th image segment replaced by the matched
\* text of the n-th match, a text segment by its content.
RECURSIVE Rebuild(_, _, _, _)
Rebuild(segments, text, matches, n) ==
    IF segments = <<>> THEN <<>>
    ELSE IF Head(segments).type = "image"
    THEN (IF n <= Len(matches) THEN SubSeq(text, matches[n].start, matches[n].end) ELSE <<>>)
         \o Rebuild(Tail(segments), text, matches, n + 1)
    ELSE Head(segments).content \o Rebuild(Tail(segments), text, matches, n)

Running == {"read", "search", "gate", "parse", "loop", "set", "except"}

---------------------------------------------------------------------------
(* Properties. *)

\* C1: for a response text (absent and empty included) without a match of the
\* image pattern, the handler leaves the reply slot exactly as it was when the
\* event was dispatched, during and after every run and re-run on that text.
C1_NoImageLeavesReply ==
    \A i \in Events :
        (pc[i] # "idle" /\ ~HasImageMatch(TextOf(i))) => event[i].reply = hist[i].dispatched

\* A re-run has finished on the near-miss "![]()" with the slot another handler set.
C1_Witness ==
    /\ pc[1] = "done"
    /\ hist[1].rerun
    /\ ~caught[1]
    /\ TextOf(1) = <<"!", "[", "]", "(", ")">>
    /\ event[1].reply = Some(<<Plain(<<"o">>)>>)

\* C2: with base_url unconfigured and at least one match whose url starts with
\* "/", the handler does not set the reply slot, whatever the other matches are.
C2_RootRelativeUnconfiguredNotSet ==
    \A i \in Events :
        ( /\ pc[i] # "idle"
          /\ base_url = <<>>
          /\ \E k \in 1..Len(Captures(TextOf(i))) : RootRelative(Captures(TextOf(i))[k]) )
        => (~hist[i].wrote /\ event[i].reply = hist[i].dispatched)

\* The handler has returned normally on an absolute image followed by a
\* root-relative one, base_url unconfigured.
C2_Witness ==
    /\ pc[1] = "done"
    /\ ~caught[1]
    /\ base_url = <<>>
    /\ TextOf(1) = Img(<<"a">>, HTTP \o <<"x">>) \o Img(<<>>, <<"/", "p">>)
    /\ event[1].reply = None

\* C3 as claimed: when the text has a match and it is not the case that (some
\* match's url is root-relative and base_url is unconfigured), a handler that
\* returns without an exception has set the reply to the parts of
\* parse_markdown_content(text), one for one and in order.
C3_Original ==
    \A i \in Events :
        ( /\ pc[i] = "done"
          /\ ~caught[i]
          /\ HasImageMatch(TextOf(i))
          /\ ~( /\ base_url = <<>>
                /\ \E k \in 1..Len(Captures(TextOf(i))) : RootRelative(Captures(TextOf(i))[k]) ) )
        => event[i].reply = Some(ToParts(parse_markdown_content(base_url, TextOf(i))))

\* C3 (amended): the same, with the exception taken for (some match's url,
\* stripped of surrounding whitespace, does not begin with http://, https:// or
\* data: and base_url is unconfigured).
C3_ReplyIsParsedParts ==
    \A i \in Events :
        ( /\ pc[i] = "done"
          /\ ~caught[i]
          /\ HasImageMatch(TextOf(i))
          /\ ~( /\ base_url = <<>>
                /\ \E k \in 1..Len(Captures(TextOf(i))) :
                      ~AbsoluteOrData(Strip(Captures(TextOf(i))[k])) ) )
        => event[i].reply = Some(ToParts(parse_markdown_content(base_url, TextOf(i))))

\* Text followed by a relative image, base_url configured: both parts are in the reply.
C3_Witness ==
    /\ pc[1] = "done"
    /\ ~caught[1]
    /\ hist[1].wrote
    /\ base_url = BaseB
    /\ TextOf(1) = <<"a">> \o Img(<<>>, <<"/", "p">>)
    /\ event[1].reply = Some(<<Plain(<<"a">>), Image(BaseB \o <<"/", "p">>)>>)

\* C4: every Image part of a reply the handler set carries either a capture
\* that begins (case-insensitively) with http://, https:// or data:, unchanged,
\* or base_url followed by a root-relative capture.
C4_NoUnresolvedImageUrl ==
    \A i \in Events :
        hist[i].wrote =>
            \A n \in 1..Len(event[i].reply.val) :
                event[i].reply.val[n].type = "Image" =>
                    \E k \in 1..Len(Captures(TextOf(i))) :
                        LET c == Captures(TextOf(i))[k] IN
                        \/ AbsoluteOrData(c) /\ event[i].reply.val[n].url = c
                        \/ /\ RootRelative(c)
                           /\ base_url # <<>>
                           /\ event[i].reply.val[n].url = base_url \o c

C8_WrittenReplyHasImage ==
    \A i \in Events :
        hist[i].wrote =>
            /\ ~IsNone(event[i].reply)
            /\ event[i].reply.val # <<>>
            /\ \E n \in 1..Len(event[i].reply.val) : event[i].reply.val[n].type = "Image"

\* A written reply with a Plain part before its Image part.
C8_Witness ==
    /\ hist[1].wrote
    /\ Len(event[1].reply.val) = 2
    /\ event[1].reply.val[1].type = "Plain"
    /\ event[1].reply.val[2].type = "Image"

\* What one invocation does to its reply slot, as a function of its response
\* text, base_url and the slot it found: leave it, or write the parsed parts.
Outcome(response_text, base, slot) ==
    LET text == IF IsNone(response_text) THEN <<>> ELSE response_text.val
        gated == /\ base = <<>>
                 /\ \E k \in 1..Len(Captures(text)) : ~AbsoluteOrData(Strip(Captures(text)[k]))
    IN  IF ~HasImageMatch(text) \/ gated THEN slot
        ELSE Some(ToParts(parse_markdown_content(base, text)))

\* C9: no step of any invocation writes base_url, and however the steps of the
\* invocations in progress interleave, an invocation that has returned has left
\* its reply slot as its own response text and base_url determine (or untouched,
\* if it caught an exception).
C9_BaseUrlImmutableOutcomeLocal ==
    [][ /\ base_url' = base_url
        /\ \A i \in Events :
              pc'[i] = "done" =>
                  event'[i].reply =
                      IF caught'[i] THEN hist'[i].run
                      ELSE Outcome(event'[i].response_text, base_url', hist'[i].run) ]_vars

\* Invocation 1 has returned with a written reply while invocation 2, on another
\* text, is inside its for loop.
C9_Witness ==
    /\ pc[1] = "done"
    /\ hist[1].wrote
    /\ pc[2] = "loop"
    /\ idx[2] = 2
    /\ TextOf(1) # TextOf(2)

\* C5: parse_markdown_content keeps order and loses only whitespace-only spans:
\* there is one image segment per match, the segments read back in order (image
\* segments as the matched text of their match) give the input with its
\* whitespace-only spans around the matches removed, and the non-whitespace
\* characters are those of the input, in the same order.
C5_ParseLossless ==
    call.fn = "parse_markdown_content" =>
        LET text == call.arg
            matches == FindIter(text)
            rebuilt == Rebuild(call.ret, text, matches, 1)
        IN  /\ Len(SelectSeq(call.ret, IsImageSegment)) = Len(matches)
            /\ rebuilt = WithoutBlankGaps(text, matches)
            /\ NonSpace(rebuilt) = NonSpace(text)

\* Two matches with a whitespace-only span between them and text after them.
C5_Witness ==
    /\ call.fn = "parse_markdown_content"
    /\ call.arg = Img(<<"a">>, HTTP \o <<"x">>) \o <<"\n">>
                    \o Img(<<"a">>, HTTP \o <<"x">>) \o <<"a">>
    /\ Len(call.ret) = 3
    /\ call.ret[3] = TextSegment(<<"a">>)

\* C6: normalize_image_url returns url unchanged when it is empty, when it
\* begins (case-insensitively) with http://, https:// or data:, when it starts
\* with "/" and base_url is unconfigured, and for any other relative form; for
\* a url starting with "/" and a configured base_url it returns base_url without
\* trailing slashes followed by url, so that no "/" stands before the url's own.
C6_NormalizeCases ==
    call.fn = "normalize_image_url" =>
        LET url == call.arg
            ret == call.ret
        IN  IF url = <<>> THEN ret = url
            ELSE IF AbsoluteOrData(url) THEN ret = url
            ELSE IF RootRelative(url) /\ base_url # <<>>
                 THEN /\ ret = RStripSlash(base_url) \o url
                      /\ Len(ret) > Len(url)
                      /\ ret[Len(ret) - Len(url)] # "/"
            ELSE ret = url

\* A root-relative url resolved against the configured base_url.
C6_Witness ==
    /\ call.fn = "normalize_image_url"
    /\ base_url = BaseB
    /\ call.arg = <<"/", "p">>
    /\ call.ret = BaseB \o <<"/", "p">>

\* C10: every text segment of parse_markdown_content has a non-whitespace
\* character, and the text segments are, in order, exactly the spans before,
\* between and after the matches that contain a non-whitespace character; so
\* one match surrounded by whitespace gives one image segment and nothing else,
\* and an empty or whitespace-only text gives no segment.
C10_TextSegmentsNonBlank ==
    call.fn = "parse_markdown_content" =>
        LET text == call.arg
            matches == FindIter(text)
            texts == SelectSeq(call.ret, IsTextSegment)
            spans == SelectSeq(Gaps(text, matches), LAMBDA g : ~Blank(g))
        IN  /\ \A k \in 1..Len(texts) : \E n \in 1..Len(texts[k].content) :
                                            ~IsSpace(texts[k].content[n])
            /\ Len(texts) = Len(spans)
            /\ \A k \in 1..Len(texts) : texts[k].content = spans[k]
            /\ (Blank(text) => call.ret = <<>>)
            /\ ( (Len(matches) = 1 /\ Blank(Gaps(text, matches)[1])
                                   /\ Blank(Gaps(text, matches)[2]))
                 => (Len(call.ret) = 1 /\ call.ret[1].type = "image") )

\* One match with whitespace on both sides: a single image segment.
C10_Witness ==
    /\ call.fn = "parse_markdown_content"
    /\ call.arg = <<" ">> \o Img(<<"a">>, HTTP \o <<"x">>) \o <<"\n">>
    /\ call.ret = <<ImageSegment(<<"a">>, HTTP \o <<"x">>)>>

====
